---- MODULE Spec2Model ----
(***************************************************************************)
(* Model of ancient_book_reader.py: the PDF render thread                  *)
(* (PDFRenderThread: run, add_task, stop) with its bounded queue, and the  *)
(* deletion handler of the file list dialog                                *)
(* (FileListDialog.delete_selected_files).                                 *)
(*                                                                         *)
(* Two threads act on the render queue: the UI thread, which calls         *)
(* add_task and stop, and the worker thread, which executes run.  The      *)
(* queue is Python's queue.Queue: one non-reentrant lock (queue.mutex)     *)
(* guards every put and get.  Real-valued ratios are kept exact as pairs   *)
(* <<numerator, denominator>>.                                             *)
(***************************************************************************)
EXTENDS Integers, Sequences, FiniteSets, TLC

VARIABLES
    running,        \* self.running
    queue,          \* self.queue.queue, the deque behind queue.Queue
    mutex,          \* self.queue.mutex: "free" or the thread that holds it
    ui_pc,          \* position of the UI thread inside add_task / stop
    cur,            \* the task built from the arguments of the add_task call in progress
    items,          \* local variable items of add_task
    w_pc,           \* position of the worker thread inside run
    task,           \* local variable task of run
    log,            \* every callback invocation so far, in order
    submitted,      \* every task add_task was called with while running, by id
    last,           \* what the UI thread's last finished call was
    stops,          \* number of stop() calls so far
    polls_after_stop,   \* queue.get calls the worker began after stop() set running
    renders_after_stop, \* renders the worker finished after stop() set running
    dequeued,       \* ids of the tasks queue.get has handed to the worker
    failed_renders, \* ids of the tasks whose rendering raised
    files,          \* names of the PDF files present in the directory
    reading_positions,  \* parent.reading_positions: absolute path -> page index
    d_pc,           \* position inside delete_selected_files
    selected_items, \* selected_items of delete_selected_files
    d_idx,          \* index of the item the for loop is at
    deleted_count,  \* deleted_count
    failed_files,   \* failed_files
    removed,        \* paths os.remove has removed during the run in progress
    pos0            \* reading_positions as it was when the user confirmed

rvars == <<running, queue, mutex, ui_pc, cur, items, w_pc, task, log, submitted,
           last, stops, polls_after_stop, renders_after_stop, dequeued, failed_renders>>
dvars == <<files, reading_positions, d_pc, selected_items, d_idx, deleted_count,
           failed_files, removed, pos0>>
vars == <<rvars, dvars>>

----------------------------------------------------------------------------
(* Bounds *)
MaxTasks == 2       \* add_task calls accepted in one behaviour
MaxStops == 1       \* stop() calls in one behaviour
NumPages == 2       \* page indices 1..NumPages
NumFiles == 3       \* PDF files in the directory

(* Program constants *)
maxsize == 10       \* queue.Queue(maxsize=10)

----------------------------------------------------------------------------
(* Data *)

\* page.rect of the page handles a caller can pass: <<width, height>>
PageRects == {<<2, 4>>, <<0, 4>>}
\* target_size values a caller can pass: <<target_width, target_height>>
TargetSizes == {<<4, 4>>, <<2, 12>>}
\* callbacks a caller can pass: one that returns, one that raises when invoked
Callbacks == {"returns", "raises"}

\* the stop sentinel None that stop() enqueues
None == [id |-> 0, page_num |-> 0, page |-> <<0, 0>>, target_size |-> <<0, 0>>,
         callback |-> "none"]

\* the tuple (page_num, page, target_size, callback) of add_task; id tells
\* two submissions with equal arguments apart
MakeTask(id, page_num, page, target_size, callback) ==
    [id |-> id, page_num |-> page_num, page |-> page, target_size |-> target_size,
     callback |-> callback]

----------------------------------------------------------------------------
(* Scale computation of run *)

\* a / b of two numbers, kept exact
Ratio(a, b) == <<a, b>>
\* a < b for two ratios with positive denominators
RatioLess(a, b) == a[1] * b[2] < b[1] * a[2]
\* Python's min(a, b): b when b < a, else a
MinRatio(a, b) == IF RatioLess(b, a) THEN b ELSE a
MaxRatio(a, b) == IF RatioLess(a, b) THEN b ELSE a

\* scale = min(target_width / original_width, target_height / original_height)
ScaleMax(target_size, rect) ==
    MaxRatio(Ratio(target_size[1], rect[1]), Ratio(target_size[2], rect[2]))
Scale(target_size, rect) ==
    MinRatio(Ratio(target_size[1], rect[1]), Ratio(target_size[2], rect[2]))

\* the divisions raise ZeroDivisionError when a side of page.rect is 0
ScaleRaises(rect) == rect[1] = 0 \/ rect[2] = 0

\* one callback invocation: callback(page_num, pixmap, scale, width, height);
\* mat is the fitz.Matrix the pixmap was rasterized with
Invocation(t, pixmap, scale, mat, width, height) ==
    [id |-> t.id, page_num |-> t.page_num, pixmap |-> pixmap, scale |-> scale,
     mat |-> mat, width |-> width, height |-> height]
\* callback(page_num, pixmap, scale, original_width, original_height)
Success(t) ==
    LET s == Scale(t.target_size, t.page)
    IN  Invocation(t, "pixmap", s, <<s, s>>, t.page[1], t.page[2])
\* callback(page_num, None, 0, 0, 0)
FailureStale(t) == Invocation(t, "null", <<0, 1>>, <<<<0, 1>>, <<0, 1>>>>, t.page[1], t.page[2])
Failure(t) == Invocation(t, "null", <<0, 1>>, <<<<0, 1>>, <<0, 1>>>>, 0, 0)

----------------------------------------------------------------------------
(* PDFRenderThread *)

InitRender ==
    /\ running = TRUE
    /\ queue = <<>>
    /\ mutex = "free"
    /\ ui_pc = "idle"
    /\ cur = None
    /\ items = <<>>
    /\ w_pc = "loop"
    /\ task = None
    /\ log = <<>>
    /\ submitted = <<>>
    /\ last = [op |-> "none", id |-> 0]
    /\ stops = 0
    /\ polls_after_stop = 0
    /\ renders_after_stop = 0
    /\ dequeued = {}
    /\ failed_renders = {}

\* items = [item for item in items if item[0] != page_num]
Kept(q, page_num) == SelectSeq(q, LAMBDA item : item.page_num # page_num)

\* add_task, line 72: if self.running; when it is false the call returns at once
AddTaskAlways(page_num, page, target_size, callback) ==
    /\ ui_pc = "idle"
    /\ Len(submitted) < MaxTasks
    /\ cur' = MakeTask(Len(submitted) + 1, page_num, page, target_size, callback)
    /\ submitted' = Append(submitted, cur')
    /\ ui_pc' = "lock"
    /\ last' = [op |-> "add_task", id |-> 0]
    /\ UNCHANGED <<running, queue, mutex, items, w_pc, task, log, stops,
                   polls_after_stop, renders_after_stop, dequeued, failed_renders, dvars>>
AddTask(page_num, page, target_size, callback) ==
    /\ ui_pc = "idle"
    /\ Len(submitted) < MaxTasks
    /\ IF running
       THEN /\ cur' = MakeTask(Len(submitted) + 1, page_num, page, target_size, callback)
            /\ submitted' = Append(submitted, cur')
            /\ ui_pc' = "lock"
            /\ last' = [op |-> "add_task", id |-> 0]
       ELSE /\ last' = [op |-> "rejected", id |-> 0]
            /\ UNCHANGED <<cur, submitted, ui_pc>>
    /\ UNCHANGED <<running, queue, mutex, items, w_pc, task, log, stops,
                   polls_after_stop, renders_after_stop, dequeued, failed_renders, dvars>>

\* add_task, line 74: with self.queue.mutex (acquire)
AddTaskLock ==
    /\ ui_pc = "lock"
    /\ mutex = "free"
    /\ mutex' = "ui"
    /\ ui_pc' = "dedup"
    /\ UNCHANGED <<running, queue, cur, items, w_pc, task, log, submitted, last,
                   stops, polls_after_stop, renders_after_stop, dequeued, failed_renders, dvars>>

\* add_task, lines 76-83, holding the mutex: copy, filter, clear, put back.
\* queue.put acquires queue.mutex, a non-reentrant threading.Lock the caller
\* already holds: the first put of the loop never returns.  With nothing to
\* put back the loop body does not run and the with block releases the mutex.
AddTaskDedupSkipped ==
    /\ ui_pc = "dedup"
    /\ mutex' = "free"
    /\ ui_pc' = "put"
    /\ UNCHANGED <<running, queue, cur, items, w_pc, task, log, submitted, last, stops,
                   polls_after_stop, renders_after_stop, dequeued, failed_renders, dvars>>
AddTaskDedup ==
    /\ ui_pc = "dedup"
    /\ items' = Kept(queue, cur.page_num)
    /\ queue' = <<>>
    /\ IF items' = <<>>
       THEN mutex' = "free" /\ ui_pc' = "put"
       ELSE mutex' = mutex /\ ui_pc' = "reput"
    /\ UNCHANGED <<running, cur, w_pc, task, log, submitted, last, stops,
                   polls_after_stop, renders_after_stop, dequeued, failed_renders, dvars>>

\* add_task, line 86: self.queue.put(new task); blocks while the queue is full
AddTaskPut ==
    /\ ui_pc = "put"
    /\ mutex = "free"
    /\ Len(queue) < maxsize
    /\ queue' = Append(queue, cur)
    /\ ui_pc' = "idle"
    /\ last' = [op |-> "add_task", id |-> cur.id]
    /\ UNCHANGED <<running, mutex, cur, items, w_pc, task, log, submitted, stops,
                   polls_after_stop, renders_after_stop, dequeued, failed_renders, dvars>>

\* stop, line 89: self.running = False
Stop ==
    /\ ui_pc = "idle"
    /\ stops < MaxStops
    /\ running' = FALSE
    /\ stops' = stops + 1
    /\ ui_pc' = "stop_put"
    /\ UNCHANGED <<queue, mutex, cur, items, w_pc, task, log, submitted, last,
                   polls_after_stop, renders_after_stop, dequeued, failed_renders, dvars>>

\* stop, line 90: self.queue.put(None); blocks while the queue is full
StopPut ==
    /\ ui_pc = "stop_put"
    /\ mutex = "free"
    /\ Len(queue) < maxsize
    /\ queue' = Append(queue, None)
    /\ ui_pc' = "idle"
    /\ last' = [op |-> "stop", id |-> 0]
    /\ UNCHANGED <<running, mutex, cur, items, w_pc, task, log, submitted, stops,
                   polls_after_stop, renders_after_stop, dequeued, failed_renders, dvars>>

\* run, line 26: while self.running
RunLoopForever ==
    /\ w_pc = "loop"
    /\ w_pc' = "get"
    /\ UNCHANGED <<running, queue, mutex, ui_pc, cur, items, task, log, submitted,
                   last, stops, polls_after_stop, renders_after_stop, dequeued, failed_renders, dvars>>
RunLoop ==
    /\ w_pc = "loop"
    /\ w_pc' = IF running THEN "get" ELSE "done"
    /\ UNCHANGED <<running, queue, mutex, ui_pc, cur, items, task, log, submitted,
                   last, stops, polls_after_stop, renders_after_stop, dequeued, failed_renders, dvars>>

\* run, lines 28-30 and 65-66: task = self.queue.get(timeout=0.05).  get
\* acquires the mutex; on an empty queue it times out with queue.Empty and the
\* loop continues; None breaks out of the loop.
RunGet ==
    /\ w_pc = "get"
    /\ mutex = "free"
    /\ polls_after_stop' = IF running THEN polls_after_stop ELSE polls_after_stop + 1
    /\ IF queue = <<>>
       THEN w_pc' = "loop" /\ UNCHANGED <<queue, task, dequeued>>
       ELSE /\ queue' = Tail(queue)
            /\ task' = Head(queue)
            /\ dequeued' = IF Head(queue) = None THEN dequeued
                           ELSE dequeued \cup {Head(queue).id}
            /\ w_pc' = IF Head(queue) = None THEN "done" ELSE "render"
    /\ UNCHANGED <<running, mutex, ui_pc, cur, items, log, submitted, last, stops,
                   renders_after_stop, failed_renders, dvars>>

\* the invocations lines 33-63 make for task t; engine_raises: get_pixmap or
\* the image conversion raises
Invocations(t, engine_raises) ==
    IF ScaleRaises(t.page) \/ engine_raises
    THEN <<Failure(t)>>
    ELSE IF t.callback = "raises"
         THEN <<Success(t), Failure(t)>>
         ELSE <<Success(t)>>

\* run, lines 32-68: render the task and call back; every exception is caught
\* inside the loop
RunRender ==
    /\ w_pc = "render"
    /\ \E engine_raises \in BOOLEAN :
          /\ log' = log \o Invocations(task, engine_raises)
          /\ failed_renders' = IF ScaleRaises(task.page) \/ engine_raises
                               THEN failed_renders \cup {task.id}
                               ELSE failed_renders
    /\ renders_after_stop' = IF running THEN renders_after_stop ELSE renders_after_stop + 1
    /\ w_pc' = "loop"
    /\ UNCHANGED <<running, queue, mutex, ui_pc, cur, items, task, submitted, last,
                   stops, polls_after_stop, dequeued, dvars>>

----------------------------------------------------------------------------
(* FileListDialog.delete_selected_files *)

\* a path is <<form, name>>; glob over the absolute script directory yields
\* absolute paths
ScannedPath(name) == <<"abs", name>>
\* os.path.abspath: the absolute form of a path
abspath(path) == <<"abs", path[2]>>
\* item.data(Qt.UserRole + 1): os.path.basename of the path
basename(path) == path[2]

\* keys reading_positions can hold: the files of the directory and one file
\* that lives elsewhere
Keys == {<<"abs", n>> : n \in 1..(NumFiles + 1)}
PageIndices == {0, 1}

\* if file_key in reading_positions: del reading_positions[file_key]
DelEntryKeep(positions, file_key) == positions
DelEntry(positions, file_key) ==
    [k \in (DOMAIN positions) \ {file_key} |-> positions[k]]

\* the listed items in list order, restricted to the selected names
RECURSIVE ItemsOf(_, _)
ItemsOf(names, n) ==
    IF n > NumFiles THEN <<>>
    ELSE (IF n \in names THEN <<ScannedPath(n)>> ELSE <<>>) \o ItemsOf(names, n + 1)

InitDialogIdle ==
    /\ files = 1..NumFiles
    /\ reading_positions = [k \in {} |-> 0]
    /\ d_pc = "idle"
    /\ selected_items = <<>>
    /\ d_idx = 1
    /\ deleted_count = 0
    /\ failed_files = <<>>
    /\ removed = {}
    /\ pos0 = [k \in {} |-> 0]

InitDialog ==
    /\ files = 1..NumFiles
    /\ \E S \in SUBSET Keys : reading_positions \in [S -> PageIndices]
    /\ d_pc = "idle"
    /\ selected_items = <<>>
    /\ d_idx = 1
    /\ deleted_count = 0
    /\ failed_files = <<>>
    /\ removed = {}
    /\ pos0 = reading_positions

\* lines 233-247: the selection, the confirmation, the loop's initial values;
\* the handler returns when nothing is selected or the reply is not Yes
DeleteSelectedFiles(names, reply) ==
    /\ d_pc = "idle"
    /\ IF names = {} \/ reply # "Yes"
       THEN /\ d_pc' = "returned"
            /\ UNCHANGED <<selected_items, d_idx, deleted_count, failed_files,
                           removed, pos0>>
       ELSE /\ d_pc' = "loop"
            /\ selected_items' = ItemsOf(names, 1)
            /\ d_idx' = 1
            /\ deleted_count' = 0
            /\ failed_files' = <<>>
            /\ removed' = {}
            /\ pos0' = reading_positions
    /\ UNCHANGED <<files, reading_positions, rvars>>

\* the dialog is idle again after the handler has returned
DialogIdle ==
    /\ d_pc = "returned"
    /\ d_pc' = "idle"
    /\ UNCHANGED <<files, reading_positions, selected_items, d_idx, deleted_count,
                   failed_files, removed, pos0, rvars>>

\* lines 249-265, one iteration.  outcome: os.remove raises; or it removes
\* the file and save_reading_positions raises; or nothing raises
DeleteItem(outcome) ==
    /\ d_pc = "loop"
    /\ d_idx <= Len(selected_items)
    /\ LET file_path == selected_items[d_idx]
           file_name == basename(file_path)
           file_key == abspath(file_path)
       IN  IF outcome = "remove_raises" \/ file_name \notin files
           THEN /\ failed_files' = Append(failed_files, [name |-> file_name, error |-> "remove"])
                /\ UNCHANGED <<files, reading_positions, deleted_count, removed>>
           ELSE /\ files' = files \ {file_name}
                /\ removed' = removed \cup {file_path}
                /\ reading_positions' =
                      IF file_key \in DOMAIN reading_positions
                      THEN DelEntry(reading_positions, file_key)
                      ELSE reading_positions
                /\ IF outcome = "save_raises" /\ file_key \in DOMAIN reading_positions
                   THEN /\ failed_files' = Append(failed_files, [name |-> file_name, error |-> "save"])
                        /\ UNCHANGED deleted_count
                   ELSE /\ deleted_count' = deleted_count + 1
                        /\ UNCHANGED failed_files
    /\ d_idx' = d_idx + 1
    /\ UNCHANGED <<d_pc, selected_items, pos0, rvars>>

\* lines 267-274: the result message and load_file_list
DeleteReport ==
    /\ d_pc = "loop"
    /\ d_idx > Len(selected_items)
    /\ d_pc' = "returned"
    /\ UNCHANGED <<files, reading_positions, selected_items, d_idx, deleted_count,
                   failed_files, removed, pos0, rvars>>

Init == InitRender /\ InitDialogIdle

Next ==
    \/ \E page_num \in 1..NumPages, page \in PageRects, target_size \in TargetSizes,
          callback \in Callbacks : AddTask(page_num, page, target_size, callback)
    \/ AddTaskLock
    \/ AddTaskDedup
    \/ AddTaskPut
    \/ Stop
    \/ StopPut
    \/ RunLoop
    \/ RunGet
    \/ RunRender

Spec == Init /\ [][Next]_vars

InitDelete == InitRender /\ InitDialog

NextDelete ==
    \/ \E names \in SUBSET files, reply \in {"Yes", "No"} : DeleteSelectedFiles(names, reply)
    \/ \E outcome \in {"remove_raises", "save_raises", "ok"} : DeleteItem(outcome)
    \/ DeleteReport
    \/ DialogIdle

SpecDelete == InitDelete /\ [][NextDelete]_vars

\* the scheduler runs the worker thread, and the UI thread inside a call,
\* whenever they can take a step; nothing obliges the UI thread to make a call
FairSpec ==
    /\ Spec
    /\ WF_vars(RunLoop) /\ WF_vars(RunGet) /\ WF_vars(RunRender)
    /\ WF_vars(AddTaskLock) /\ WF_vars(AddTaskDedup) /\ WF_vars(AddTaskPut)
    /\ WF_vars(StopPut)

----------------------------------------------------------------------------
(* Properties *)

\* C1: when add_task(N, ...) returns, the queue holds exactly one task for
\* page N and it is the task just submitted; between calls the queue never
\* holds two tasks for one page.
C1_DedupKeepsNewest ==
    /\ [][(ui_pc = "put" /\ ui_pc' = "idle") =>
            SelectSeq(queue', LAMBDA item : item.page_num = cur.page_num)
                 = <<submitted[Len(submitted)]>>]_vars
    /\ [](ui_pc = "idle" =>
            \A i, j \in 1..Len(queue) :
                (i # j /\ queue[i] # None /\ queue[j] # None)
                    => queue[i].page_num # queue[j].page_num)
\* a second add_task for the page of a still queued task has returned: the
\* first task was never dequeued, the queue holds the second
C1_Witness ==
    /\ ui_pc = "idle" /\ last = [op |-> "add_task", id |-> 2]
    /\ submitted[1].page_num = submitted[2].page_num
    /\ submitted[1].target_size # submitted[2].target_size
    /\ 1 \notin dequeued
    /\ queue = <<submitted[2]>>

\* C2: the dedup pass of add_task(N, ...) leaves the queued tasks of every
\* other page in the queue, in their order.
C2_OtherPagesPreserved ==
    [][(ui_pc = "dedup" /\ ui_pc' # "dedup") =>
          Kept(queue', cur.page_num) = Kept(queue, cur.page_num)]_vars

\* C3: a render that raises is reported by one callback invocation
\* (N, null, 0, 0, 0) and the worker returns to the head of its loop; every
\* null invocation carries scale 0, width 0 and height 0; the worker leaves
\* its loop only after stop().
C3_FailureReported ==
    /\ [][(w_pc = "render" /\ w_pc' # "render") =>
            /\ w_pc' = "loop"
            /\ (task.id \in failed_renders' =>
                  log' = Append(log, [id |-> task.id, page_num |-> task.page_num,
                                      pixmap |-> "null", scale |-> <<0, 1>>,
                                      mat |-> <<<<0, 1>>, <<0, 1>>>>,
                                      width |-> 0, height |-> 0]))]_vars
    /\ [](\A k \in 1..Len(log) :
            log[k].pixmap = "null" =>
               log[k].scale = <<0, 1>> /\ log[k].width = 0 /\ log[k].height = 0)
    /\ [](w_pc = "done" => ~running)
\* a failed render of task 1 was reported and the task after it was rendered
C3_Witness ==
    /\ Len(log) = 2
    /\ log[1].id = 1 /\ log[1].pixmap = "null" /\ 1 \in failed_renders
    /\ log[2].id = 2 /\ log[2].pixmap = "pixmap"

\* C4: after stop() the worker terminates, and before it does it begins at
\* most one more queue.get and finishes at most one more render.
C4_StopTerminatesWorker ==
    /\ (stops > 0) ~> (w_pc = "done")
    /\ [](polls_after_stop <= 1 /\ renders_after_stop <= 1)
\* stop() was called during a render; the worker has finished it and left
C4_Witness ==
    /\ stops > 0 /\ w_pc = "done" /\ renders_after_stop = 1 /\ polls_after_stop = 0

\* C5: after stop(), a step of the UI thread that is not another stop() is
\* an add_task call that accepts no task and leaves the queue as it is.
C5_NoTaskAfterStop ==
    [][(~running /\ ui_pc = "idle" /\ ui_pc' # "stop_put") =>
          /\ ui_pc' = "idle"
          /\ submitted' = submitted
          /\ cur' = cur
          /\ (queue' = queue \/ (w_pc = "get" /\ queue' = Tail(queue)))]_vars
\* add_task was called after stop() had enqueued its sentinel
C5_Witness ==
    /\ ~running /\ last.op = "rejected" /\ ui_pc = "idle"
    /\ queue # <<>> /\ queue[Len(queue)] = None

\* C6: during and after the deletion loop, the entry of every path whose
\* file was removed is gone, every other entry is as it was when the user
\* confirmed, and every item the loop has passed was either counted as
\* deleted or recorded as failed.
C6_DeleteKeepsOtherEntries ==
    d_pc \in {"loop", "returned"} =>
       /\ \A key \in Keys :
             IF \E path \in removed : abspath(path) = key
             THEN key \notin DOMAIN reading_positions
             ELSE /\ (key \in DOMAIN reading_positions) = (key \in DOMAIN pos0)
                  /\ key \in DOMAIN pos0 => reading_positions[key] = pos0[key]
       /\ deleted_count + Len(failed_files) = d_idx - 1
       /\ (d_pc = "returned" /\ selected_items # <<>>) => d_idx = Len(selected_items) + 1
       /\ \A k \in 1..(d_idx - 1) :
             selected_items[k] \notin removed =>
                \E f \in 1..Len(failed_files) :
                    failed_files[f].name = selected_items[k][2]
\* a run over two or more selected files ended: the removal of the first
\* failed and its entry is still there, the second was removed with its
\* entry, the entry of a file still in the directory survived
C6_Witness ==
    /\ d_pc = "returned" /\ Len(selected_items) >= 2
    /\ selected_items[1] \notin removed
    /\ selected_items[1] \in DOMAIN reading_positions
    /\ selected_items[2] \in removed
    /\ selected_items[2] \in DOMAIN pos0
    /\ \E key \in DOMAIN reading_positions : key[2] \in files
    /\ Len(failed_files) = 1

\* C7: a successful invocation reports the scale min(W/w, H/h), used for
\* both axes of the matrix, and the page's original width and height.
C7_ScaleIsMin ==
    \A k \in 1..Len(log) :
        log[k].pixmap = "pixmap" =>
            LET t == submitted[log[k].id]
                W == t.target_size[1]
                H == t.target_size[2]
                w == t.page[1]
                h == t.page[2]
                s == log[k].scale
            IN  /\ w > 0 /\ h > 0 /\ s[2] > 0
                /\ s[1] * w <= W * s[2]
                /\ s[1] * h <= H * s[2]
                /\ (s[1] * w = W * s[2] \/ s[1] * h = H * s[2])
                /\ log[k].mat = <<s, s>>
                /\ log[k].width = w /\ log[k].height = h
\* both branches of min have been reported: once the width ratio, once the
\* height ratio was the smaller
C7_Witness ==
    /\ \E k \in 1..Len(log) :
          /\ log[k].pixmap = "pixmap"
          /\ log[k].scale = <<2, 2>> /\ submitted[log[k].id].target_size = <<2, 12>>
    /\ \E k \in 1..Len(log) :
          /\ log[k].pixmap = "pixmap"
          /\ log[k].scale = <<4, 4>> /\ submitted[log[k].id].target_size = <<4, 4>>

\* C8: every add_task call in progress returns, with the mutex released.
C8_AddTaskReturns ==
    (ui_pc \in {"lock", "dedup", "reput", "put"}) ~> (ui_pc = "idle" /\ mutex = "free")

\* C9: the callback of a dequeued task is invoked exactly once: not at all
\* while its render is in progress, once from then on.
C9_CallbackExactlyOnce ==
    \A i \in dequeued :
        Cardinality({k \in 1..Len(log) : log[k].id = i})
            = IF w_pc = "render" /\ task.id = i THEN 0 ELSE 1

\* C10: while stop() has not been called, a queued task that no later
\* add_task for its page supersedes eventually has its callback invoked.
C10_QueuedTaskIsServed ==
    \A i \in 1..MaxTasks :
        (\E k \in 1..Len(queue) : queue[k].id = i)
            ~> \/ \E k \in 1..Len(log) : log[k].id = i
               \/ \E j \in (i + 1)..Len(submitted) :
                     submitted[j].page_num = submitted[i].page_num
               \/ ~running

====
